---- MODULE Spec2Model ----
(***************************************************************************)
(* Model of screenshot-ai-renamer-macos.                                   *)
(*                                                                         *)
(* Part 1: the tag extractors of tools/llm_wrapper.py (extract_xml_tag,    *)
(*         extract_response_text), as pure functions over character        *)
(*         sequences.  A Python str is a sequence of one-character         *)
(*         strings; a Python value is a record (None or str); the outcome  *)
(*         of a call is a str or a raised exception.                       *)
(*         A character outside ASCII is one element, named by its code     *)
(*         point ("U+0130").                                               *)
(* Part 2: the directory scan and the per-file run of                      *)
(*         screenshot-renamer.py, with run_apple_model's retry loop.       *)
(* Part 3: the sanitizer of tools/intelligent_filename.py on the answers   *)
(*         of the filename model.                                          *)
(***************************************************************************)
EXTENDS Integers, Sequences, FiniteSets, TLC

VARIABLES
    raw_text,   \* extractors: the raw_text argument (PyNone or PyStr)
    tag,        \* extractors: the tag argument of extract_xml_tag (chars)
    xml_out,    \* outcome of extract_xml_tag(raw_text, tag), or Unset
    resp_out,   \* outcome of extract_response_text(raw_text), or Unset
    repaired,   \* extract_response_text appended a synthesized </response>
    fs,         \* the directory: file name -> the file stored under it
    meta,       \* metadata written: set of [path, file]
    dry_run,    \* args.dry_run
    image_files,      \* main: the pending screenshots, in processing order
    already_renamed,  \* main: the files process_directory skipped
    pc,         \* main / process_image: the step about to run
    idx,        \* main: number of images whose process_image returned
    secondary,  \* main: secondary_ai_components is not None
    attempt,    \* run_apple_model: the loop variable
    sessions,   \* run_apple_model: Session objects opened by this call
    filename_stub,    \* process_image: generate_intelligent_filename's result
    error,      \* the exception that ended the run, or "none"
    steps,      \* steps completed for the current image, in order
    renames,    \* every os.rename performed: [src, dst, file, lost]
    outcomes,   \* run_apple_model: what each session of this call did
    llm_out     \* run_apple_model: PyStr(text), Raised(exc), or Unset

xvars == <<raw_text, tag, xml_out, resp_out, repaired>>
rvars == <<fs, meta, dry_run, image_files, already_renamed, pc, idx, secondary,
           attempt, sessions, filename_stub, error, steps, renames,
           outcomes, llm_out>>
vars == <<xvars, rvars>>

(***************************************************************************)
(* Bounds of the model.                                                    *)
(***************************************************************************)
\* number of fragments a generated raw text is made of
MaxFrags == 4
\* number of files in the directory
MaxFiles == 2
\* number of pieces a generated model answer is made of
MaxParts == 3

(***************************************************************************)
(* Python values and call outcomes.                                        *)
(***************************************************************************)
PyNone == [kind |-> "None"]
PyStr(s) == [kind |-> "str", s |-> s]
Raised(exc) == [kind |-> "raise", exc |-> exc]
Unset == [kind |-> "unset"]

\* `not raw_text`: None and the empty string are falsy.
Falsy_EmptyOnly(v) == v.kind = "str" /\ v.s = <<>>
Falsy(v) == v.kind = "None" \/ (v.kind = "str" /\ v.s = <<>>)

(***************************************************************************)
(* Characters.                                                             *)
(***************************************************************************)
\* str.lower() and str.upper() on the ASCII letters, one character each.
UpperLetters ==
    <<"A", "B", "C", "D", "E", "F", "G", "H", "I", "J", "K", "L", "M",
      "N", "O", "P", "Q", "R", "S", "T", "U", "V", "W", "X", "Y", "Z">>
LowerLetters ==
    <<"a", "b", "c", "d", "e", "f", "g", "h", "i", "j", "k", "l", "m",
      "n", "o", "p", "q", "r", "s", "t", "u", "v", "w", "x", "y", "z">>
Digits == {"0", "1", "2", "3", "4", "5", "6", "7", "8", "9"}

Range(f) == {f[i] : i \in DOMAIN f}

ToLower == [c \in Range(UpperLetters) |->
               LowerLetters[CHOOSE i \in 1..26 : UpperLetters[i] = c]]
ToUpper == [c \in Range(LowerLetters) |->
               UpperLetters[CHOOSE i \in 1..26 : LowerLetters[i] = c]]

LowerChar(c) == IF c \in DOMAIN ToLower THEN ToLower[c] ELSE c
UpperChar(c) == IF c \in DOMAIN ToUpper THEN ToUpper[c] ELSE c

\* str.strip() with no argument removes whitespace.
IsSpace(c) == c \in {" ", "\n", "\t"}

(***************************************************************************)
(* Python str operations, 0-based indices as in the source.                *)
(***************************************************************************)
\* str.lower() is not always one character for one: the capital I with a
\* dot above (U+0130) becomes an i followed by a combining dot (U+0307).
CapitalIDot == "U+0130"
LowerOf(c) == IF c = CapitalIDot THEN <<"i", "U+0307">> ELSE <<LowerChar(c)>>

RECURSIVE Lower(_)
Lower(s) == IF s = <<>> THEN <<>> ELSE LowerOf(Head(s)) \o Lower(Tail(s))
Upper(s) == [i \in 1..Len(s) |-> UpperChar(s[i])]

\* sub occurs in s at 0-based index i
MatchAt(s, sub, i) ==
    /\ i >= 0
    /\ i + Len(sub) <= Len(s)
    /\ \A k \in 1..Len(sub) : s[i + k] = sub[k]

SetMin(S) == CHOOSE x \in S : \A y \in S : x <= y
SetMax(S) == CHOOSE x \in S : \A y \in S : x >= y

\* s.find(sub, start): lowest index >= start, or -1
PyFind(s, sub, start) ==
    LET hits == {i \in start..Len(s) : MatchAt(s, sub, i)}
    IN  IF hits = {} THEN -1 ELSE SetMin(hits)

\* s.rfind(sub): highest index, or -1
PyRFind(s, sub) ==
    LET hits == {i \in 0..Len(s) : MatchAt(s, sub, i)}
    IN  IF hits = {} THEN -1 ELSE SetMax(hits)

\* s[a:b] for 0 <= a; an end beyond the string is the end of the string
Slice(s, a, b) ==
    LET e == IF b > Len(s) THEN Len(s) ELSE b
    IN  IF a >= e THEN <<>> ELSE SubSeq(s, a + 1, e)
\* s[a:]
SliceFrom(s, a) == Slice(s, a, Len(s))

\* s.rstrip()
RStrip(s) ==
    LET keep == {i \in 1..Len(s) : ~IsSpace(s[i])}
    IN  IF keep = {} THEN <<>> ELSE SubSeq(s, 1, SetMax(keep))

\* s.strip()
Strip(s) ==
    LET keep == {i \in 1..Len(s) : ~IsSpace(s[i])}
    IN  IF keep = {} THEN <<>> ELSE SubSeq(s, SetMin(keep), SetMax(keep))

\* s.endswith(suffix)
EndsWith(s, suffix) == MatchAt(s, suffix, Len(s) - Len(suffix))

\* s.startswith(prefix)
StartsWith(s, prefix) == MatchAt(s, prefix, 0)

(***************************************************************************)
(* extract_xml_tag(raw_text, tag)                                          *)
(***************************************************************************)
\* f"<{tag}" and f"</{tag}"
OpenToken(t) == <<"<">> \o t
CloseToken(t) == <<"<", "/">> \o t

ExtractXmlTag(raw, t) ==
    IF Falsy(raw) THEN PyStr(<<>>)
    ELSE IF raw.kind # "str" THEN Raised("AttributeError")
    ELSE
      LET text == raw.s
          lower == Lower(text)
          start_idx == PyRFind(lower, OpenToken(t))
      IN  IF start_idx = -1 THEN PyStr(<<>>)
          ELSE
            LET gt_idx == PyFind(text, <<">">>, start_idx)
            IN  IF gt_idx = -1 THEN PyStr(<<>>)
                ELSE
                  LET close_idx == PyFind(lower, CloseToken(t), gt_idx + 1)
                  IN  IF close_idx = -1
                        THEN PyStr(Strip(SliceFrom(text, gt_idx + 1)))
                        ELSE PyStr(Strip(Slice(text, gt_idx + 1, close_idx)))

(***************************************************************************)
(* extract_response_text(raw_text)                                         *)
(***************************************************************************)
Response == <<"r", "e", "s", "p", "o", "n", "s", "e">>
OpenResponse == OpenToken(Response)
CloseResponse == CloseToken(Response)
CloseResponseTag == CloseResponse \o <<">">>

\* re.IGNORECASE match of a literal (ASCII) at index i
MatchAtCI(s, sub, i) ==
    /\ i >= 0
    /\ i + Len(sub) <= Len(s)
    /\ \A k \in 1..Len(sub) : LowerChar(s[i + k]) = LowerChar(sub[k])

\* re.search(r"<response[^>]*>(.*?)</response[^>]*>", s, IGNORECASE | DOTALL):
\* the match attempt at start position p.  [^>]* followed by > ends at the
\* first > after the opening token; (.*?) is lazy, so the closing token is
\* the first one that still has a > somewhere after it.  The result is
\* <<TRUE, group(1)>> or <<FALSE, <<>> >>.
ResponseMatchFrom(s, p) ==
    IF ~MatchAtCI(s, OpenResponse, p) THEN <<FALSE, <<>> >>
    ELSE
      LET g == PyFind(s, <<">">>, p + Len(OpenResponse))
      IN  IF g = -1 THEN <<FALSE, <<>> >>
          ELSE
            LET closes == {c \in (g + 1)..Len(s) :
                              /\ MatchAtCI(s, CloseResponse, c)
                              /\ PyFind(s, <<">">>, c + Len(CloseResponse)) # -1}
            IN  IF closes = {} THEN <<FALSE, <<>> >>
                ELSE <<TRUE, Slice(s, g + 1, SetMin(closes))>>

\* re.search tries the start positions left to right.
ResponseSearch(s) ==
    LET starts == {p \in 0..Len(s) : ResponseMatchFrom(s, p)[1]}
    IN  IF starts = {} THEN <<FALSE, <<>> >>
        ELSE ResponseMatchFrom(s, SetMin(starts))

\* `if not after_start.rstrip().lower().endswith("</response>")`
NeedsRepair_Never(after_start) == FALSE
NeedsRepair(after_start) ==
    ~EndsWith(Lower(RStrip(after_start)), CloseResponseTag)

\* `if start_idx == -1: return ""`
StartNotFound_Ignored(start_idx) == FALSE
StartNotFound(start_idx) == start_idx = -1

\* The outcome and whether the closing tag was synthesized.
ExtractResponseText(raw) ==
    IF Falsy(raw) THEN [out |-> PyStr(<<>>), repaired |-> FALSE]
    ELSE IF raw.kind # "str" THEN [out |-> Raised("AttributeError"), repaired |-> FALSE]
    ELSE
      LET text == raw.s
          lowered == Lower(text)
          start_idx == PyRFind(lowered, OpenResponse)
      IN  IF StartNotFound(start_idx) THEN [out |-> PyStr(<<>>), repaired |-> FALSE]
          ELSE
            \* raw_text[start_idx:]; a negative start_idx counts from the end
            LET from == IF start_idx < 0 THEN Len(text) + start_idx ELSE start_idx
                after0 == SliceFrom(text, from)
                rep == NeedsRepair(after0)
                after_start == IF rep THEN after0 \o CloseResponseTag ELSE after0
                m == ResponseSearch(after_start)
            IN  [out |-> IF m[1] THEN PyStr(Strip(m[2])) ELSE PyStr(<<>>),
                 repaired |-> rep]

(***************************************************************************)
(* File names: process_directory and RENAMED_PATTERN                       *)
(***************************************************************************)
ScreenPrefix == <<"s", "c", "r", "e", "e", "n">>
DotPng == <<".", "p", "n", "g">>
ScreenshotUnderscore == <<"s", "c", "r", "e", "e", "n", "s", "h", "o", "t", "_">>
UnknownDate == <<"u", "n", "k", "n", "o", "w", "n", "-", "d", "a", "t", "e">>

IsDigit(c) == c \in Digits
IsAsciiLetter(c) == c \in DOMAIN ToLower \/ c \in DOMAIN ToUpper

\* os.path.splitext(p)[-1] for a name without a directory part: the text
\* from the last dot on, unless only dots precede it.
SplitExt(p) ==
    LET dot == PyRFind(p, <<".">>)
    IN  IF dot = -1 THEN <<>>
        ELSE IF \E k \in 1..dot : p[k] # "." THEN SliceFrom(p, dot)
        ELSE <<>>

\* \d{4}-\d{2}-\d{2} at index i
DateAt(s, i) ==
    /\ i >= 0
    /\ i + 10 <= Len(s)
    /\ \A k \in {1, 2, 3, 4, 6, 7, 9, 10} : IsDigit(s[i + k])
    /\ s[i + 5] = "-"
    /\ s[i + 8] = "-"

\* [a-z0-9_-] under re.IGNORECASE
IsStubChar(c) == IsAsciiLetter(c) \/ IsDigit(c) \/ c \in {"_", "-"}

\* -[a-z0-9_-]+\.png$ from index j on; $ matches at the end of the string
\* and before a newline that ends it.
RenamedTailFrom(s, j) ==
    /\ j < Len(s)
    /\ s[j + 1] = "-"
    /\ \E e \in {Len(s)} \cup (IF Len(s) > 0 /\ s[Len(s)] = "\n" THEN {Len(s) - 1} ELSE {}) :
          /\ e - 4 >= j + 2
          /\ MatchAtCI(Slice(s, 0, e), DotPng, e - 4)
          /\ \A k \in (j + 2)..(e - 4) : IsStubChar(s[k])

\* RENAMED_PATTERN.match(s)
RenamedPatternMatch_AnyStub(s) ==
    /\ MatchAtCI(s, ScreenshotUnderscore, 0)
    /\ EndsWith(Lower(s), DotPng)
RenamedPatternMatch(s) ==
    /\ MatchAtCI(s, ScreenshotUnderscore, 0)
    /\ \/ DateAt(s, 11) /\ RenamedTailFrom(s, 21)
       \/ MatchAtCI(s, UnknownDate, 11) /\ RenamedTailFrom(s, 23)

\* The three tests of process_directory's loop body on one file name:
\* "pending" (image_files), "renamed" (already_renamed) or "ignored".
Classify(filename) ==
    LET lower_filename == Lower(filename)
    IN  IF ~StartsWith(lower_filename, ScreenPrefix) THEN "ignored"
        ELSE IF SplitExt(lower_filename) # DotPng THEN "ignored"
        ELSE IF RenamedPatternMatch(lower_filename) THEN "renamed"
        ELSE "pending"

(***************************************************************************)
(* Ordering of the pending list (main)                                     *)
(***************************************************************************)
\* The characters of the model in code point order.
CodePointOrder ==
    <<"\n", " ", "-", ".", "/", "0", "1", "2", "3", "4", "5", "6", "7", "8",
      "9", "<", ">", "A", "B", "C", "D", "E", "F", "G", "H", "I", "J", "K",
      "L", "M", "N", "O", "P", "Q", "R", "S", "T", "U", "V", "W", "X", "Y",
      "Z", "_", "a", "b", "c", "d", "e", "f", "g", "h", "i", "j", "k", "l",
      "m", "n", "o", "p", "q", "r", "s", "t", "u", "v", "w", "x", "y", "z">>
Ord(c) == CHOOSE i \in DOMAIN CodePointOrder : CodePointOrder[i] = c

\* a < b as Python compares str
RECURSIVE StrLess(_, _)
StrLess(a, b) ==
    IF b = <<>> THEN FALSE
    ELSE IF a = <<>> THEN TRUE
    ELSE IF Head(a) = Head(b) THEN StrLess(Tail(a), Tail(b))
    ELSE Ord(Head(a)) < Ord(Head(b))

\* The sequences that list the set S once each.
Orderings(S) ==
    {p \in [1..Cardinality(S) -> S] : \A x \in S : \E i \in DOMAIN p : p[i] = x}

\* a comes before b after image_files.sort() followed by the stable
\* image_files.sort(key=len): shorter names first, equal lengths by name.
SortsBefore(a, b) ==
    \/ Len(a) < Len(b)
    \/ Len(a) = Len(b) /\ StrLess(a, b)

RECURSIVE SortedByLen(_)
SortedByLen(S) ==
    IF S = {} THEN <<>>
    ELSE LET first == CHOOSE x \in S : \A y \in S \ {x} : SortsBefore(x, y)
         IN  <<first>> \o SortedByLen(S \ {first})

(***************************************************************************)
(* generate_intelligent_filename: from the model's response to the stub    *)
(***************************************************************************)
\* filename[:64]
MaxStubLen == 64

\* response.split("\n")[0]
FirstLine(s) ==
    LET nl == PyFind(s, <<"\n">>, 0)
    IN  IF nl = -1 THEN s ELSE Slice(s, 0, nl)

\* s.replace(" ", "_")
ReplaceSpaces(s) == [i \in 1..Len(s) |-> IF s[i] = " " THEN "_" ELSE s[i]]

\* s.replace("__", "_"): one pass, left to right, occurrences not overlapping
RECURSIVE ReplaceDoubleUnderscore(_)
ReplaceDoubleUnderscore(s) ==
    IF Len(s) < 2 THEN s
    ELSE IF s[1] = "_" /\ s[2] = "_"
         THEN <<"_">> \o ReplaceDoubleUnderscore(SubSeq(s, 3, Len(s)))
         ELSE <<s[1]>> \o ReplaceDoubleUnderscore(Tail(s))

\* c.isalnum(): letters and digits of any script; of the characters outside
\* ASCII the model has the e with an acute accent (U+00E9).
SmallEAcute == "U+00E9"
IsAlnum(c) == IsAsciiLetter(c) \/ IsDigit(c) \/ c = SmallEAcute

\* "".join(c for c in filename if c.isalnum() or c in "._-")
KeepFilenameChars(s) == SelectSeq(s, LAMBDA c : IsAlnum(c) \/ c \in {".", "_", "-"})

\* Lines 63 to 71: from run_apple_model's return value to the file name.
FilenameFromResponse(response) ==
    LET stripped == Strip(response)
        f1 == Lower(FirstLine(stripped))
        f2 == ReplaceDoubleUnderscore(ReplaceSpaces(f1))
        f3 == KeepFilenameChars(f2)
        f4 == Slice(f3, 0, MaxStubLen)
    IN  IF EndsWith(f4, DotPng) THEN f4 ELSE f4 \o DotPng

(***************************************************************************)
(* process_image: the new file name                                        *)
(***************************************************************************)
\* re.search(r"(\d{4}-\d{2}-\d{2})", filename): the first date, if any
DatePart(filename) ==
    LET hits == {i \in 0..Len(filename) : DateAt(filename, i)}
    IN  IF hits = {} THEN UnknownDate
        ELSE Slice(filename, SetMin(hits), SetMin(hits) + 10)

\* new_filename = f"screenshot_{date_part}-{filename_stub}"
NewFilename(filename, stub) ==
    ScreenshotUnderscore \o DatePart(filename) \o <<"-">> \o stub

(***************************************************************************)
(* The extractor calls as a state machine: a raw text and a tag name are   *)
(* given, and each extractor is called on them once.                       *)
(***************************************************************************)
\* Tag names the generated texts are written with.
NameA == <<"a">>
TextNames == {NameA, Response}

\* The pieces a generated raw text is concatenated from, for tag name n:
\* opening and closing tags, complete or cut before their >, in lower and
\* upper case, a stray >, whitespace, and a letter (content, attribute or
\* the continuation of a tag name), and a letter whose lower-case form is
\* two characters long.
Frags(n) ==
    { OpenToken(n),
      OpenToken(n) \o <<">">>,
      OpenToken(Upper(n)) \o <<">">>,
      CloseToken(n) \o <<">">>,
      CloseToken(Upper(n)),
      <<">">>, <<"\n">>, <<"x">>, <<CapitalIDot>> }

\* The tag arguments tried on a text written with tag name n.
TagArgs(n) == IF n = NameA THEN {n, Upper(n)} ELSE {n}

RECURSIVE Concat(_)
Concat(ss) == IF ss = <<>> THEN <<>> ELSE Head(ss) \o Concat(Tail(ss))

Texts(n) == { Concat(f) : f \in UNION { [1..k -> Frags(n)] : k \in 0..MaxFrags } }

\* The renamer is not running.
RunIdle ==
    /\ fs = <<>>
    /\ meta = {}
    /\ dry_run = FALSE
    /\ image_files = <<>>
    /\ already_renamed = <<>>
    /\ pc = "idle"
    /\ idx = 0
    /\ secondary = FALSE
    /\ attempt = 0
    /\ sessions = 0
    /\ filename_stub = <<>>
    /\ error = "none"
    /\ steps = <<>>
    /\ renames = <<>>
    /\ outcomes = <<>>
    /\ llm_out = Unset

InitExtract ==
    /\ \E n \in TextNames :
          /\ raw_text \in {PyNone} \cup { PyStr(t) : t \in Texts(n) }
          /\ tag \in TagArgs(n)
    /\ xml_out = Unset
    /\ resp_out = Unset
    /\ repaired = FALSE
    /\ RunIdle

CallExtractXmlTag ==
    /\ xml_out = Unset
    /\ xml_out' = ExtractXmlTag(raw_text, tag)
    /\ UNCHANGED <<raw_text, tag, resp_out, repaired, rvars>>

CallExtractResponseText ==
    /\ resp_out = Unset
    /\ LET r == ExtractResponseText(raw_text)
       IN  /\ resp_out' = r.out
           /\ repaired' = r.repaired
    /\ UNCHANGED <<raw_text, tag, xml_out, rvars>>

NextExtract == CallExtractXmlTag \/ CallExtractResponseText

SpecExtract == InitExtract /\ [][NextExtract]_vars

(***************************************************************************)
(* The renamer as a state machine: main() of screenshot-renamer.py on a    *)
(* directory, with process_image's steps as the actions.  What the         *)
(* external models return (OCR, captions, the filename model) is chosen    *)
(* nondeterministically.                                                   *)
(***************************************************************************)
\* run_apple_model(prompt, max_retries = 2)
MaxRetries == 2

\* File names a directory may hold.
N_Shot1 == <<"S", "c", "r", "e", "e", "n", "s", "h", "o", "t", " ", "2", "0", "2", "4", "-", "0", "1", "-", "0", "2", " ", "a", "t", " ", "1", ".", "p", "n", "g">>
N_Shot2 == <<"S", "c", "r", "e", "e", "n", "s", "h", "o", "t", " ", "2", "0", "2", "4", "-", "0", "1", "-", "0", "2", " ", "a", "t", " ", "2", ".", "p", "n", "g">>
N_Legacy == <<"S", "c", "r", "e", "e", "n", " ", "S", "h", "o", "t", " ", "2", "0", "2", "4", "-", "0", "1", "-", "0", "2", ".", "p", "n", "g">>
N_NoDate == <<"s", "c", "r", "e", "e", "n", "s", "h", "o", "t", ".", "p", "n", "g">>
N_Renamed == <<"s", "c", "r", "e", "e", "n", "s", "h", "o", "t", "_", "2", "0", "2", "4", "-", "0", "1", "-", "0", "2", "-", "a", "b", ".", "p", "n", "g">>
N_RenamedUpper == <<"S", "C", "R", "E", "E", "N", "S", "H", "O", "T", "_", "U", "N", "K", "N", "O", "W", "N", "-", "D", "A", "T", "E", "-", "A", "B", ".", "P", "N", "G">>
N_EmptyStub == <<"s", "c", "r", "e", "e", "n", "s", "h", "o", "t", "_", "2", "0", "2", "4", "-", "0", "1", "-", "0", "2", "-", ".", "p", "n", "g">>
N_UnknownEmpty == <<"s", "c", "r", "e", "e", "n", "s", "h", "o", "t", "_", "u", "n", "k", "n", "o", "w", "n", "-", "d", "a", "t", "e", "-", ".", "p", "n", "g">>
N_Jpg == <<"S", "c", "r", "e", "e", "n", "s", "h", "o", "t", " ", "2", "0", "2", "4", "-", "0", "1", "-", "0", "2", ".", "j", "p", "g">>
N_Other == <<"n", "o", "t", "e", "s", ".", "p", "n", "g">>

FileNames ==
    {N_Shot1, N_Shot2, N_Legacy, N_NoDate, N_Renamed, N_RenamedUpper,
     N_EmptyStub, N_UnknownEmpty, N_Jpg, N_Other}

\* Texts the filename model may answer with (response.text).
R_Plain == <<"a", "b">>
R_Empty == <<>>
R_Lines == <<" ", "A", " ", " ", "b", "\n", "x">>
Responses == {R_Plain, R_Empty, R_Lines}

Directories == {S \in SUBSET FileNames : Cardinality(S) <= MaxFiles}

InitRun ==
    /\ raw_text = PyNone /\ tag = <<>> /\ xml_out = Unset /\ resp_out = Unset
    /\ repaired = FALSE
    /\ \E S \in Directories : fs = [n \in S |-> n]
    /\ meta = {}
    /\ dry_run \in BOOLEAN
    /\ image_files = <<>>
    /\ already_renamed = <<>>
    /\ pc = "scan"
    /\ idx = 0
    /\ secondary = FALSE
    /\ attempt = 0
    /\ sessions = 0
    /\ filename_stub = <<>>
    /\ error = "none"
    /\ steps = <<>>
    /\ renames = <<>>
    /\ outcomes = <<>>
    /\ llm_out = Unset

\* An uncaught exception ends the run.
Raise(exc) == pc' = "failed" /\ error' = exc

\* The file process_image is working on.
CurrentFile == image_files[idx + 1]

\* process_directory(args.directory) and the ordering of its result (main,
\* lines 304 to 311).  os.listdir returns the names in arbitrary order; a
\* dry run shuffles the pending list, a live run sorts it by name and then,
\* stably, by length.
Pending(names) == {n \in names : Classify(n) = "pending"}
Skipped(names) == {n \in names : Classify(n) = "renamed"}

ProcessDirectory ==
    /\ pc = "scan"
    /\ already_renamed' \in Orderings(Skipped(DOMAIN fs))
    /\ IF dry_run
         THEN image_files' \in Orderings(Pending(DOMAIN fs))
         ELSE image_files' = SortedByLen(Pending(DOMAIN fs))
    /\ pc' = IF Pending(DOMAIN fs) = {} THEN "done" ELSE "load_primary"
    /\ UNCHANGED <<xvars, outcomes, llm_out, fs, meta, dry_run, idx, secondary, attempt, sessions,
                   filename_stub, error, steps, renames>>

\* setup_ai_components(backend="moondream"): a failure is re-raised.
LoadPrimary ==
    /\ pc = "load_primary"
    /\ \/ pc' = "load_secondary" /\ error' = error
       \/ Raise("LoadError")
    /\ UNCHANGED <<xvars, outcomes, llm_out, fs, meta, dry_run, image_files, already_renamed, idx,
                   secondary, attempt, sessions, filename_stub, steps, renames>>

\* setup_ai_components(backend="vit-gpt2"): a failure leaves None.  The
\* loop over image_files starts.
LoadSecondary ==
    /\ pc = "load_secondary"
    /\ secondary' \in BOOLEAN
    /\ pc' = "ocr"
    /\ UNCHANGED <<xvars, outcomes, llm_out, fs, meta, dry_run, image_files, already_renamed, idx,
                   attempt, sessions, filename_stub, error, steps, renames>>

\* extract_text_from_image(image_path): opens the file; raises when the
\* file is not there or the OCR engine fails.
ExtractText ==
    /\ pc = "ocr"
    /\ \/ /\ CurrentFile \in DOMAIN fs
          /\ pc' = "caption"
          /\ steps' = Append(steps, "ocr")
          /\ error' = error
       \/ /\ CurrentFile \notin DOMAIN fs
          /\ Raise("FileNotFoundError")
          /\ steps' = steps
       \/ /\ Raise("OcrError")
          /\ steps' = steps
    /\ UNCHANGED <<xvars, outcomes, llm_out, fs, meta, dry_run, image_files, already_renamed, idx,
                   secondary, attempt, sessions, filename_stub, renames>>

\* generate_caption(image_path, ai_components): an empty caption raises.
GenerateCaption_SkipsSecondary ==
    /\ pc = "caption"
    /\ \/ /\ pc' = "filename"
          /\ steps' = Append(steps, "caption")
          /\ error' = error
       \/ /\ Raise("ValueError")
          /\ steps' = steps
    /\ UNCHANGED <<xvars, outcomes, llm_out, fs, meta, dry_run, image_files,
                   already_renamed, idx, secondary, attempt, sessions,
                   filename_stub, renames>>

GenerateCaption ==
    /\ pc = "caption"
    /\ \/ /\ pc' = IF secondary THEN "caption2" ELSE "filename"
          /\ steps' = Append(steps, "caption")
          /\ error' = error
       \/ /\ Raise("ValueError")
          /\ steps' = steps
    /\ UNCHANGED <<xvars, outcomes, llm_out, fs, meta, dry_run, image_files, already_renamed, idx,
                   secondary, attempt, sessions, filename_stub, renames>>

\* generate_caption(image_path, secondary_ai_components)
GenerateSecondaryCaption ==
    /\ pc = "caption2"
    /\ \/ /\ pc' = "filename"
          /\ steps' = Append(steps, "caption2")
          /\ error' = error
       \/ /\ Raise("ValueError")
          /\ steps' = steps
    /\ UNCHANGED <<xvars, outcomes, llm_out, fs, meta, dry_run, image_files, already_renamed, idx,
                   secondary, attempt, sessions, filename_stub, renames>>

\* generate_intelligent_filename calls run_apple_model, which starts with
\* _require_apple_intelligence() and then enters its retry loop.
RequireAppleIntelligence ==
    /\ pc = "filename"
    /\ sessions' = 0
    /\ outcomes' = <<>>
    /\ \/ pc' = "llm" /\ attempt' = 1 /\ error' = error /\ llm_out' = Unset
       \/ /\ Raise("RuntimeError")
          /\ attempt' = attempt
          /\ llm_out' = Raised("RuntimeError")
    /\ UNCHANGED <<xvars, fs, meta, dry_run, image_files, already_renamed, idx,
                   secondary, filename_stub, steps, renames>>

\* for attempt in range(1, max_retries + 1): the loop is over
RetriesExhausted_OneMore(a) == a > MaxRetries + 1
RetriesExhausted(a) == a > MaxRetries

\* One pass of run_apple_model's loop in which the session answers: the
\* stripped text is returned and generate_intelligent_filename turns it
\* into the file name.
AppleModelAnswers ==
    /\ pc = "llm"
    /\ ~RetriesExhausted(attempt)
    /\ sessions' = sessions + 1
    /\ \E r \in Responses :
          /\ outcomes' = Append(outcomes, [ok |-> TRUE, text |-> r])
          /\ llm_out' = PyStr(Strip(r))
          /\ filename_stub' = FilenameFromResponse(Strip(r))
    /\ pc' = "rename"
    /\ steps' = Append(steps, "filename")
    /\ UNCHANGED <<xvars, fs, meta, dry_run, image_files, already_renamed, idx,
                   secondary, attempt, error, renames>>

\* One pass of the loop in which the session raises; after the last pass
\* RuntimeError is raised.
AppleModelFails ==
    /\ pc = "llm"
    /\ ~RetriesExhausted(attempt)
    /\ sessions' = sessions + 1
    /\ outcomes' = Append(outcomes, [ok |-> FALSE, text |-> <<>>])
    /\ attempt' = attempt + 1
    /\ IF RetriesExhausted(attempt + 1)
         THEN Raise("RuntimeError") /\ llm_out' = Raised("RuntimeError")
         ELSE pc' = pc /\ error' = error /\ llm_out' = llm_out
    /\ UNCHANGED <<xvars, fs, meta, dry_run, image_files, already_renamed, idx,
                   secondary, filename_stub, steps, renames>>

\* process_image returns; main's loop goes on to the next image or ends.
NextImage ==
    /\ idx' = idx + 1
    /\ pc' = IF idx + 1 < Len(image_files) THEN "ocr" ELSE "done"
    /\ steps' = <<>>

\* if dry_run: only the message is printed.
IsDryRun_Never(flag) == FALSE
IsDryRun(flag) == flag

DryRunPrint ==
    /\ pc = "rename"
    /\ IsDryRun(dry_run)
    /\ NextImage
    /\ UNCHANGED <<xvars, outcomes, llm_out, fs, meta, dry_run, image_files, already_renamed,
                   secondary, attempt, sessions, filename_stub, error, renames>>

\* os.rename(image_path, new_path): the file moves to the new name and
\* replaces a file that is already there.
Rename ==
    /\ pc = "rename"
    /\ ~IsDryRun(dry_run)
    /\ LET src == CurrentFile
           dst == NewFilename(src, filename_stub)
       IN  /\ fs' = [n \in (DOMAIN fs \ {src}) \cup {dst} |->
                        IF n = dst THEN fs[src] ELSE fs[n]]
           /\ renames' = Append(renames,
                  [src |-> src, dst |-> dst, file |-> fs[src],
                   lost |-> IF dst \in DOMAIN fs /\ dst # src
                              THEN {fs[dst]} ELSE {}])
    /\ pc' = "metadata"
    /\ steps' = Append(steps, "rename")
    /\ UNCHANGED <<xvars, outcomes, llm_out, meta, dry_run, image_files, already_renamed, idx,
                   secondary, attempt, sessions, filename_stub, error>>

\* write_exif_metadata(new_path, ocr_text, ai_caption)
WriteExifMetadata ==
    /\ pc = "metadata"
    /\ LET new_path == NewFilename(CurrentFile, filename_stub)
       IN  meta' = meta \cup {[path |-> new_path, file |-> fs[new_path]]}
    /\ NextImage
    /\ UNCHANGED <<xvars, outcomes, llm_out, fs, dry_run, image_files, already_renamed, secondary,
                   attempt, sessions, filename_stub, error, renames>>

NextRun ==
    \/ ProcessDirectory
    \/ LoadPrimary
    \/ LoadSecondary
    \/ ExtractText
    \/ GenerateCaption
    \/ GenerateSecondaryCaption
    \/ RequireAppleIntelligence
    \/ AppleModelAnswers
    \/ AppleModelFails
    \/ DryRunPrint
    \/ Rename
    \/ WriteExifMetadata

SpecRun == InitRun /\ [][NextRun]_vars


(***************************************************************************)
(* generate_intelligent_filename as a state machine: run_apple_model has   *)
(* returned a text, and lines 63 to 71 turn it into a file name.           *)
(***************************************************************************)
\* A run of one letter, long enough for the [:64] cut to matter.
RECURSIVE Repeat(_, _)
Repeat(c, n) == IF n = 0 THEN <<>> ELSE <<c>> \o Repeat(c, n - 1)

LongRunLen == 61
LongRun == Repeat("a", LongRunLen)

\* The pieces a generated model answer is concatenated from, after an
\* optional long run.
AnswerParts ==
    { <<"a">>, <<"B">>, <<" ">>, <<"_">>, <<".">>, DotPng, <<"\n">>,
      <<"/">>, <<SmallEAcute>> }

Answers ==
    { long \o Concat(f) :
        long \in {<<>>, LongRun},
        f \in UNION { [1..k -> AnswerParts] : k \in 0..MaxParts } }

InitFilename ==
    /\ raw_text = PyNone /\ tag = <<>> /\ xml_out = Unset /\ resp_out = Unset
    /\ repaired = FALSE
    /\ fs = <<>>
    /\ meta = {}
    /\ dry_run = FALSE
    /\ image_files = <<>>
    /\ already_renamed = <<>>
    /\ pc = "filename_call"
    /\ idx = 0
    /\ secondary = FALSE
    /\ attempt = 0
    /\ sessions = 0
    /\ filename_stub = <<>>
    /\ error = "none"
    /\ steps = <<>>
    /\ renames = <<>>
    /\ outcomes = <<>>
    /\ \E t \in Answers : llm_out = PyStr(Strip(t))

\* Lines 63 to 71 on the text run_apple_model returned.
SanitizeAnswer ==
    /\ pc = "filename_call"
    /\ filename_stub' = FilenameFromResponse(llm_out.s)
    /\ pc' = "filename_done"
    /\ UNCHANGED <<xvars, fs, meta, dry_run, image_files, already_renamed, idx,
                   secondary, attempt, sessions, error, steps, renames,
                   outcomes, llm_out>>

NextFilename == SanitizeAnswer

SpecFilename == InitFilename /\ [][NextFilename]_vars
(***************************************************************************)
(* Claims about the extractors.  The notions the claims are stated with    *)
(* are defined here from the specification's words: opening and closing    *)
(* tokens are the substrings <name and </name, independent of casing.      *)
(***************************************************************************)
XmlCalled == xml_out # Unset /\ raw_text.kind = "str"
RespCalled == resp_out # Unset /\ raw_text.kind = "str"

\* A character that continues a tag name.
IsNameChar(c) == c \notin {"<", ">", "/", " ", "\n", "\t"}

\* The tag named t (in any letter case) opens at index i of text: the
\* opening token, followed by the end of the name.
TagOpensAt(text, t, i) ==
    /\ MatchAtCI(text, OpenToken(t), i)
    /\ \/ i + Len(t) + 1 = Len(text)
       \/ ~IsNameChar(text[i + Len(t) + 2])

ContainsTag(text, t) == \E i \in 0..Len(text) : TagOpensAt(text, t, i)

\* Positions of the opening token <t, and of the closing token </t from
\* index a on, both in any letter case.
OpenPositions(text, t) == {i \in 0..Len(text) : MatchAtCI(text, OpenToken(t), i)}
ClosePositionsFrom(text, t, a) ==
    {c \in a..Len(text) : MatchAtCI(text, CloseToken(t), c)}

\* Index of the first > at or after index a, or -1.
NextGt(text, a) ==
    LET gs == {g \in a..(Len(text) - 1) : text[g + 1] = ">"}
    IN  IF gs = {} THEN -1 ELSE SetMin(gs)

\* The content of the instance whose opening token is at index k, as the
\* specification describes it (steps 3 to 5 of section 4.1).
ContentOfInstance(text, t, k) ==
    LET g == NextGt(text, k)
    IN  IF g = -1 THEN <<>>
        ELSE LET cs == ClosePositionsFrom(text, t, g + 1)
             IN  IF cs = {} THEN Strip(SliceFrom(text, g + 1))
                 ELSE Strip(Slice(text, g + 1, SetMin(cs)))

\* The tag argument is written in lower case, as the callers' examples are.
LowerCaseTag == tag = Lower(tag)

\* C1: when the text contains no occurrence of the tag (in any letter
\* case), extract_xml_tag returns the empty string; a longer tag name that
\* starts with the same letters is not an occurrence.
C1_NoTagGivesEmpty ==
    (XmlCalled /\ ~ContainsTag(raw_text.s, tag)) => xml_out = PyStr(<<>>)

\* C2: last occurrence wins: when the text contains several instances of
\* the tag, the result is the trimmed content of the instance whose opening
\* token is the last one in the text.
C2_LastOccurrenceWins ==
    (XmlCalled /\ Cardinality(OpenPositions(raw_text.s, tag)) >= 2) =>
        xml_out = PyStr(ContentOfInstance(raw_text.s, tag,
                                          SetMax(OpenPositions(raw_text.s, tag))))

\* C3: the result is the same whatever the letter case of the tag name
\* argument (the text's letter case is covered by matching tokens in any
\* letter case in C2, C4 and C5).
C3_TagCaseInsensitive ==
    XmlCalled =>
        /\ xml_out = ExtractXmlTag(raw_text, Lower(tag))
        /\ xml_out = ExtractXmlTag(raw_text, Upper(tag))

\* The complete opening tag of the last instance: its token and its >.
HasLastOpeningTag(text, t) ==
    /\ OpenPositions(text, t) # {}
    /\ NextGt(text, SetMax(OpenPositions(text, t))) # -1

LastGt(text, t) == NextGt(text, SetMax(OpenPositions(text, t)))

\* C4: when no closing token occurs after the last opening tag, the result
\* is everything after the opening tag's > to the end of the text, trimmed.
C4_MissingCloseTolerated ==
    (/\ XmlCalled
     /\ HasLastOpeningTag(raw_text.s, tag)
     /\ ClosePositionsFrom(raw_text.s, tag, LastGt(raw_text.s, tag) + 1) = {}) =>
        xml_out = PyStr(Strip(SliceFrom(raw_text.s, LastGt(raw_text.s, tag) + 1)))

\* C5: when a closing token occurs after the last opening tag, the result
\* is exactly the text between the first > following the opening token and
\* the first such closing token, trimmed; nothing of the opening tag (its
\* attributes) is part of it.
C5_ContentBetweenTags ==
    (/\ XmlCalled
     /\ HasLastOpeningTag(raw_text.s, tag)
     /\ ClosePositionsFrom(raw_text.s, tag, LastGt(raw_text.s, tag) + 1) # {}) =>
        xml_out = PyStr(Strip(Slice(raw_text.s, LastGt(raw_text.s, tag) + 1,
               SetMin(ClosePositionsFrom(raw_text.s, tag, LastGt(raw_text.s, tag) + 1)))))

\* C6: both extractors are total: whatever the text, each returns a string
\* and never raises, and for an empty or missing (None) text each returns
\* the empty string without going further.
C6_ExtractorsTotal ==
    /\ xml_out # Unset => xml_out.kind = "str"
    /\ resp_out # Unset => resp_out.kind = "str"
    /\ (raw_text = PyNone \/ raw_text = PyStr(<<>>)) =>
          /\ xml_out # Unset => xml_out = PyStr(<<>>)
          /\ resp_out # Unset => (resp_out = PyStr(<<>>) /\ ~repaired)

\* Both extractors were called on None and returned "".
C6_Witness ==
    /\ raw_text = PyNone
    /\ xml_out = PyStr(<<>>)
    /\ resp_out = PyStr(<<>>)

\* The complete closing tag </response> (with its >), in any letter case,
\* from index a on.
CloseTagPositionsFrom(text, a) ==
    {c \in a..Len(text) : MatchAtCI(text, CloseResponseTag, c)}

\* What C7 promises for a truncated text: everything after the opening
\* tag's > to the end of the input, trimmed; it lies within the input, so
\* nothing of a synthesized </response> is in it.
TruncatedRecovered ==
    /\ resp_out = PyStr(Strip(SliceFrom(raw_text.s, LastGt(raw_text.s, Response) + 1)))
    /\ \E a \in (LastGt(raw_text.s, Response) + 1)..Len(raw_text.s) :
           MatchAt(raw_text.s, resp_out.s, a)

\* C7, a closing tag being the complete </response> with its >: when the
\* last <response ...> opening tag is followed by no closing tag,
\* extract_response_text returns the trimmed text from after the opening
\* tag's > to the end of the input.
C7_TruncatedRecovered_AsStated ==
    (/\ RespCalled
     /\ HasLastOpeningTag(raw_text.s, Response)
     /\ CloseTagPositionsFrom(raw_text.s, LastGt(raw_text.s, Response) + 1) = {}) =>
        TruncatedRecovered

\* C7, a closing token being </response with or without its >: when the
\* last <response ...> opening tag is followed by no closing token at all,
\* extract_response_text returns the trimmed text from after the opening
\* tag's > to the end of the input, and the synthesized </response> is not
\* part of it.
C7_TruncatedRecovered ==
    (/\ RespCalled
     /\ HasLastOpeningTag(raw_text.s, Response)
     /\ ClosePositionsFrom(raw_text.s, Response, LastGt(raw_text.s, Response) + 1) = {}) =>
        TruncatedRecovered

\* C8: when the text holds no opening token <response in any letter case,
\* extract_response_text returns the empty string and repairs nothing.
C8_NoResponseTokenGivesEmpty ==
    (RespCalled /\ OpenPositions(raw_text.s, Response) = {}) =>
        (resp_out = PyStr(<<>>) /\ ~repaired)

\* A text made of a closing tag only gave "" without repair.
C8_Witness ==
    /\ raw_text = PyStr(CloseResponseTag)
    /\ resp_out = PyStr(<<>>)
    /\ ~repaired

(***************************************************************************)
(* Claims about the directory scan and the run.                            *)
(***************************************************************************)
InPending(n) == \E i \in DOMAIN image_files : image_files[i] = n
InSkipped(n) == \E i \in DOMAIN already_renamed : already_renamed[i] = n

\* The scan has run and nothing has been renamed yet: fs is the directory
\* that process_directory listed.
Scanned == pc \notin {"idle", "scan"} /\ renames = <<>>

Screenshot == <<"s", "c", "r", "e", "e", "n", "s", "h", "o", "t">>

\* The name matches screenshot*.png (letter case aside).
IsScreenshotPng(n) ==
    /\ StartsWith(Lower(n), Screenshot)
    /\ Len(n) >= Len(Screenshot) + Len(DotPng)
    /\ EndsWith(Lower(n), DotPng)

\* The name starts with "screen" and ends with .png (letter case aside).
IsScreenPng(n) ==
    /\ StartsWith(Lower(n), ScreenPrefix)
    /\ Len(n) >= Len(ScreenPrefix) + Len(DotPng)
    /\ EndsWith(Lower(n), DotPng)

\* The name has the renamed form screenshot_<date>-<stub>.png (letter case
\* aside): the date is dddd-dd-dd or unknown-date, the stub is one or more
\* of a-z, 0-9, _ and -.
HasRenamedForm(n) ==
    LET l == Lower(n)
    IN  \E d \in {10, 12} :
          /\ Len(l) >= 11 + d + 1 + 1 + 4
          /\ SubSeq(l, 1, 11) = ScreenshotUnderscore
          /\ IF d = 10 THEN DateAt(l, 11) ELSE SubSeq(l, 12, 23) = UnknownDate
          /\ l[11 + d + 1] = "-"
          /\ SubSeq(l, Len(l) - 3, Len(l)) = DotPng
          /\ \A k \in (11 + d + 2)..(Len(l) - 4) :
                l[k] \in Range(LowerLetters) \cup Digits \cup {"_", "-"}

\* The lists hold names of the directory, each at most once, and no name
\* is in both.
ListsAreDisjointSelections ==
    /\ \A i \in DOMAIN image_files : image_files[i] \in DOMAIN fs
    /\ \A i \in DOMAIN already_renamed : already_renamed[i] \in DOMAIN fs
    /\ \A i, j \in DOMAIN image_files : image_files[i] = image_files[j] => i = j
    /\ \A i, j \in DOMAIN already_renamed :
          already_renamed[i] = already_renamed[j] => i = j
    /\ \A n \in DOMAIN fs : ~(InPending(n) /\ InSkipped(n))

\* C9 (as stated): a file is in the pending list if and only if its name
\* matches screenshot*.png and has not the renamed form; the renamed ones
\* are in the skipped list only, every other file in neither list.
C9_ScanSelects_AsStated ==
    Scanned =>
        /\ \A n \in DOMAIN fs :
              /\ InPending(n) <=> (IsScreenshotPng(n) /\ ~HasRenamedForm(n))
              /\ InSkipped(n) <=> (IsScreenshotPng(n) /\ HasRenamedForm(n))
        /\ ListsAreDisjointSelections

\* C9 (amended): a file is in the pending list if and only if its name
\* starts with "screen" and ends with .png (letter case aside) and has not
\* the renamed form; the renamed ones are in the skipped list only, every
\* other file is in neither list, and no file is in both.
C9_ScanSelects ==
    Scanned =>
        /\ \A n \in DOMAIN fs :
              /\ InPending(n) <=> (IsScreenPng(n) /\ ~HasRenamedForm(n))
              /\ InSkipped(n) <=> (IsScreenPng(n) /\ HasRenamedForm(n))
        /\ ListsAreDisjointSelections

\* A directory with a renamed file and a screenshot whose stub is empty
\* was scanned: the first is skipped, the second pending.
C9_Witness ==
    /\ Scanned
    /\ DOMAIN fs = {N_RenamedUpper, N_EmptyStub}
    /\ image_files = <<N_EmptyStub>>
    /\ already_renamed = <<N_RenamedUpper>>

\* C10: in a dry run no step renames a file or writes metadata: the
\* directory and the metadata stay as they were, whatever the models do.
C10_DryRunModifiesNothing ==
    [][dry_run => (fs' = fs /\ meta' = meta)]_vars

\* A dry run went through two pending images to the end.
C10_Witness ==
    /\ dry_run
    /\ pc = "done"
    /\ idx = 2
    /\ \A n \in DOMAIN fs : fs[n] = n
    /\ meta = {}


(***************************************************************************)
(* run_apple_model's retry loop                                            *)
(***************************************************************************)
\* The sessions of the current call that answered.
Succeeded == {i \in 1..Len(outcomes) : outcomes[i].ok}

\* C11: run_apple_model opens at most max_retries sessions; the first
\* session that answers is the last one opened and its stripped text is
\* what the call returns; the call raises RuntimeError exactly when all
\* max_retries sessions failed or when the availability check failed, and
\* in the latter case no session was opened.
C11_RetryContract ==
    /\ Len(outcomes) <= MaxRetries
    /\ sessions = Len(outcomes)
    /\ \A i \in Succeeded :
          /\ i = Len(outcomes)
          /\ llm_out = PyStr(Strip(outcomes[i].text))
    /\ llm_out.kind = "str" => Succeeded # {}
    /\ llm_out.kind = "raise" =>
          /\ llm_out = Raised("RuntimeError")
          /\ error = "RuntimeError"
          /\ Succeeded = {}
          /\ Len(outcomes) \in {0, MaxRetries}
    /\ (Len(outcomes) = MaxRetries /\ Succeeded = {}) =>
          llm_out = Raised("RuntimeError")
    /\ error = "RuntimeError" => llm_out = Raised("RuntimeError")
    /\ llm_out = Unset => Len(outcomes) < MaxRetries /\ Succeeded = {}

\* The first session failed and the second answered with a text that
\* strip() shortens: that text, stripped, was returned.
C11_Witness ==
    /\ Len(outcomes) = 2
    /\ ~outcomes[1].ok
    /\ outcomes[2].ok
    /\ outcomes[2].text = R_Lines
    /\ llm_out = PyStr(<<"A", " ", " ", "b", "\n", "x">>)
    /\ pc = "rename"

(***************************************************************************)
(* The two extractors on the response tag                                  *)
(***************************************************************************)
\* C12: on every text extract_response_text(text) and
\* extract_xml_tag(text, "response") return the same string.
C12_ExtractorsAgree ==
    (XmlCalled /\ RespCalled /\ tag = Response) => xml_out = resp_out

(***************************************************************************)
(* The names a live run gives                                              *)
(***************************************************************************)
\* C13: every name a live run has given a file is classified as already
\* renamed by process_directory, so a later run does not select the file
\* as pending again.
C13_RenamedIsFixedPoint ==
    \A i \in 1..Len(renames) : Classify(renames[i].dst) = "renamed"

\* C14: no os.rename of a live run targets a name under which another file
\* of the directory is stored, so no file is replaced and the directory
\* holds as many files after the run as before.
C14_NoFileLost ==
    \A i \in 1..Len(renames) : renames[i].lost = {}

(***************************************************************************)
(* The order of process_image's steps                                      *)
(***************************************************************************)
\* The steps that come before the rename.
StepsBeforeRename ==
    IF secondary
      THEN <<"ocr", "caption", "caption2", "filename">>
      ELSE <<"ocr", "caption", "filename">>

LastRename == renames[Len(renames)]

\* C15: a file is renamed only when OCR, the primary caption, the secondary
\* caption (if the secondary backend is loaded) and the filename generation
\* have completed for it, in that order; metadata is written only after
\* the rename, for the file under its new name; and a step that raises
\* leaves the directory as it is, the current file under its old name.
C15_StepOrder ==
    [][ /\ renames' # renames =>
              /\ steps = StepsBeforeRename
              /\ renames' = Append(renames, LastRename')
              /\ LastRename'.src = CurrentFile
              /\ LastRename'.dst = NewFilename(CurrentFile, filename_stub)
        /\ meta' # meta =>
              /\ steps = StepsBeforeRename \o <<"rename">>
              /\ meta' = meta \cup {[path |-> LastRename.dst, file |-> LastRename.file]}
              /\ fs[LastRename.dst] = LastRename.file
        /\ (error = "none" /\ error' # "none") =>
              /\ fs' = fs
              /\ renames' = renames
              /\ meta' = meta
              /\ CurrentFile \in DOMAIN fs'
      ]_vars

\* A live run with both caption backends has renamed a file and is about
\* to write its metadata.
C15_Witness ==
    /\ ~dry_run
    /\ secondary
    /\ steps = <<"ocr", "caption", "caption2", "filename", "rename">>
    /\ pc = "metadata"
    /\ LastRename.src = N_Shot1
    /\ LastRename.dst = N_Renamed

(***************************************************************************)
(* The file name made from the model's answer                              *)
(***************************************************************************)
\* The answer has been turned into a file name.
Sanitized == pc = "filename_done"

\* An answer with the same first line and something else after it.
SameFirstLine(answer) ==
    IF FirstLine(answer) = <<>> THEN <<>>
    ELSE FirstLine(answer) \o <<"\n", "z">>

\* C16: whatever the model answers, the name generate_intelligent_filename
\* returns ends with .png, and with one .png only; it is at most 68
\* characters long, is made of letters, digits, ".", "_" and "-" only, and
\* depends on the first line of the answer only.
C16_ValidPngName ==
    Sanitized =>
        /\ Len(filename_stub) >= Len(DotPng)
        /\ EndsWith(filename_stub, DotPng)
        /\ ~EndsWith(Slice(filename_stub, 0, Len(filename_stub) - Len(DotPng)), DotPng)
        /\ Len(filename_stub) <= MaxStubLen + Len(DotPng)
        /\ \A i \in 1..Len(filename_stub) :
              IsAlnum(filename_stub[i]) \/ filename_stub[i] \in {".", "_", "-"}
        /\ filename_stub = FilenameFromResponse(SameFirstLine(llm_out.s))

(***************************************************************************)
(* Failures during the batch                                               *)
(***************************************************************************)
\* process_image raised for the image at position idx + 1.
ImageRaised == pc = "failed" /\ error # "LoadError"

\* C17: when the primary caption backend fails to load, the run ends with
\* no image processed; loading the secondary backend never ends the run;
\* and when process_image raises for image i of a live run, each of the
\* images 1..i-1 is stored under the name it was given, each of the images
\* i..n is stored under its old name, and no file was processed twice.
C17_BatchFailure ==
    /\ error = "LoadError" =>
          /\ idx = 0 /\ steps = <<>> /\ outcomes = <<>>
          /\ renames = <<>> /\ meta = {}
          /\ \A n \in DOMAIN fs : fs[n] = n
    /\ (pc \in {"ocr", "caption", "caption2", "filename", "llm", "rename", "metadata"}
          /\ ~secondary) => error = "none"
    /\ (ImageRaised /\ ~dry_run) =>
          /\ Len(renames) = idx
          /\ \A j \in 1..idx :
                /\ renames[j].src = image_files[j]
                /\ renames[j].file = image_files[j]
                /\ renames[j].dst \in DOMAIN fs
                /\ fs[renames[j].dst] = renames[j].file
          /\ \A j \in (idx + 1)..Len(image_files) :
                /\ image_files[j] \in DOMAIN fs
                /\ fs[image_files[j]] = image_files[j]
          /\ \A j, k \in 1..idx : renames[j].file = renames[k].file => j = k
====
